---- MODULE Spec2Model ----
(***************************************************************************)
(* A model of asdl/gen_cpp.py: the generator that turns an ASDL schema     *)
(* into C++ reader classes.                                                *)
(*                                                                         *)
(* Two specifications share this module.                                   *)
(*   Spec        the generation run of main(): prologue, the chain of      *)
(*               ForwardDeclareVisitor and ClassDefVisitor over a module,  *)
(*               the deferred footer and the epilogue.                     *)
(*   SpecReflow  the line formatter, ReflowLines and FormatLines, applied  *)
(*               to input lines drawn from a bounded set.                  *)
(*                                                                         *)
(* Text is modelled as follows.  In the formatter a string is a sequence   *)
(* of one-character strings, so that find, rfind, slicing and the          *)
(* substring test act on characters as in Python.  In the visitors a       *)
(* written line is a record that names the template the line comes from    *)
(* and the values interpolated into it; the wrapping of that text by        *)
(* Emit -> FormatLines is the subject of SpecReflow and is left out of     *)
(* Spec.                                                                   *)
(*                                                                         *)
(* An exception that main() does not catch (the KeyError of an unresolved  *)
(* type name, the AssertionError of the attribute check) ends the run in   *)
(* pc = "aborted" with the output written so far.                          *)
(***************************************************************************)
EXTENDS Integers, Sequences, FiniteSets, TLC

VARIABLES
  module,     \* the parsed schema: self.module (a sequence of type definitions)
  ref_width,  \* enc.ref_width, copied to ClassDefVisitor.ref_width
  pc,         \* position of main() in the run
  idx,        \* definitions ClassDefVisitor.VisitModule has entered so far
  out,        \* the lines written to f (sys.stdout), in order
  footer,     \* ClassDefVisitor.footer: the queued deferred bodies
  rf_s,       \* formatter: the input line s
  rf_depth,   \* formatter: the indentation depth
  rf_pc,      \* formatter: which function has returned
  rf_res      \* formatter: what it returned (ok = FALSE: the assertion failed)

vars == <<module, ref_width, pc, idx, out, footer, rf_s, rf_depth, rf_pc, rf_res>>

visitorVars == <<module, ref_width, pc, idx, out, footer>>
reflowVars == <<rf_s, rf_depth, rf_pc, rf_res>>

(***************************************************************************)
(* Bounds of the model.                                                    *)
(***************************************************************************)
MaxToks == 5       \* tokens an input line of the formatter is built from
MaxDepth == 38     \* largest indentation depth given to the formatter
MaxRefWidth == 4   \* largest enc.ref_width
MaxDfns == 2       \* type definitions in a module
MaxCons == 2       \* constructors of a sum
MaxFields == 2     \* fields of a constructor or product
MaxAttrs == 1      \* attributes of a sum or product

(***************************************************************************)
(* Program constants.                                                      *)
(***************************************************************************)
TABSIZE == 2
MAX_COL == 80

Max(a, b) == IF a >= b THEN a ELSE b
Min(a, b) == IF a <= b THEN a ELSE b

(***************************************************************************)
(* Python string primitives, on sequences of characters.  Indices are      *)
(* Python's (from 0); a negative bound counts from the end and is clipped  *)
(* at 0, a bound beyond the end is clipped at the length.                  *)
(***************************************************************************)
Clip(k, n) == IF k < 0 THEN Max(k + n, 0) ELSE Min(k, n)

\* s[a:b]
Slice(s, a, b) == SubSeq(s, Clip(a, Len(s)) + 1, Clip(b, Len(s)))

\* s[a:]
SliceFrom(s, a) == SubSeq(s, Clip(a, Len(s)) + 1, Len(s))

\* the positions p with a <= p < b (after clipping) where s holds c
Hits(s, c, a, b) ==
  {p \in Clip(a, Len(s)) .. (Clip(b, Len(s)) - 1) : s[p + 1] = c}

\* s.find(c, a, b) for a one-character c
Find(s, c, a, b) ==
  LET h == Hits(s, c, a, b)
  IN IF h = {} THEN -1 ELSE CHOOSE p \in h : \A q \in h : p <= q

\* s.rfind(c, a, b) for a one-character c
RFind(s, c, a, b) ==
  LET h == Hits(s, c, a, b)
  IN IF h = {} THEN -1 ELSE CHOOSE p \in h : \A q \in h : p >= q

\* w in s
Contains(s, w) ==
  \E p \in 1 .. (Len(s) - Len(w) + 1) : SubSeq(s, p, p + Len(w) - 1) = w

\* " " * n
Spaces(n) == [k \in 1 .. Max(n, 0) |-> " "]

GeneratorExp == <<"G", "e", "n", "e", "r", "a", "t", "o", "r", "E", "x", "p">>

(***************************************************************************)
(* ReflowLines.  A result is [ok, lines]; ok = FALSE stands for the failed *)
(* assertion "Impossible line to reflow", where nothing is returned.       *)
(***************************************************************************)
\* the mutant of NeedsSplit: the loop also takes a line that fits exactly
NeedsSplit_Mut(cur, size) == Len(cur) >= size

\* the loop condition: while len(cur) > size
NeedsSplit(cur, size) == Len(cur) > size

\* where the loop cuts cur: the last space before column size, or, for a
\* line that has none and holds 'GeneratorExp', size + 3; -1 when neither
BreakAt(cur, size) ==
  LET i == RFind(cur, " ", 0, size)
  IN IF i = -1 /\ Contains(cur, GeneratorExp) THEN size + 3 ELSE i

RECURSIVE ReflowLoop(_, _, _, _)
ReflowLoop(cur, size, padding, lines) ==
  IF NeedsSplit(cur, size)
  THEN LET i == BreakAt(cur, size)
       IN IF i = -1
          THEN [ok |-> FALSE, lines |-> lines]
          ELSE LET lines1 == Append(lines, padding \o Slice(cur, 0, i))
                   jb == Find(cur, "{", 0, i)
                   jp == Find(cur, "(", 0, i)
                   j == IF jb >= 0 THEN jb + 2 ELSE jp + 1
                   adj == Len(lines1) = 1 /\ (jb >= 0 \/ jp >= 0)
                   size1 == IF adj THEN size - j ELSE size
                   padding1 == IF adj THEN Spaces(j) ELSE padding
               IN ReflowLoop(SliceFrom(cur, i + 1), size1, padding1, lines1)
  ELSE [ok |-> TRUE, lines |-> Append(lines, padding \o cur)]

ReflowLines(s, depth) ==
  LET size == MAX_COL - depth * TABSIZE
  IN IF Len(s) < size
     THEN [ok |-> TRUE, lines |-> <<s>>]
     ELSE ReflowLoop(s, size, <<>>, <<>>)

\* FormatLines(s, depth, reflow): every line indented and ended by "\n"
FormatLines(s, depth, reflow) ==
  LET r == IF reflow THEN ReflowLines(s, depth)
           ELSE [ok |-> TRUE, lines |-> <<s>>]
  IN [ok |-> r.ok,
      lines |-> IF r.ok
                THEN [k \in 1 .. Len(r.lines) |->
                        Spaces(TABSIZE * depth) \o r.lines[k] \o <<"\n">>]
                ELSE <<>>]

(***************************************************************************)
(* The input lines of the formatter: up to MaxToks tokens, each a space,   *)
(* an opening brace or parenthesis, a letter, or the word GeneratorExp.    *)
(***************************************************************************)
Tokens == {<<" ">>, <<"{">>, <<"(">>, <<"x">>, GeneratorExp}

RECURSIVE Concat(_)
Concat(ts) == IF ts = <<>> THEN <<>> ELSE Head(ts) \o Concat(Tail(ts))

InputLines == {Concat(ts) : ts \in UNION {[1 .. n -> Tokens] : n \in 0 .. MaxToks}}

Depths == (MaxDepth - 4) .. MaxDepth

Budget(depth) == MAX_COL - depth * TABSIZE

NoResult == [ok |-> FALSE, lines |-> <<>>]

IdleVisitor ==
  /\ module = <<>>
  /\ ref_width = 0
  /\ pc = "idle"
  /\ idx = 0
  /\ out = <<>>
  /\ footer = <<>>

InitReflow ==
  /\ IdleVisitor
  /\ rf_s \in InputLines
  /\ rf_depth \in Depths
  /\ rf_pc = "call"
  /\ rf_res = NoResult

CallReflowLines ==
  /\ rf_pc = "call"
  /\ rf_res' = ReflowLines(rf_s, rf_depth)
  /\ rf_pc' = IF rf_res'.ok THEN "reflowed" ELSE "failed"
  /\ UNCHANGED <<rf_s, rf_depth>>
  /\ UNCHANGED visitorVars

CallFormatLines ==
  /\ rf_pc = "call"
  /\ \E reflow \in BOOLEAN :
       /\ rf_res' = FormatLines(rf_s, rf_depth, reflow)
       /\ rf_pc' = IF ~rf_res'.ok THEN "failed"
                   ELSE IF reflow THEN "formatted" ELSE "copied"
  /\ UNCHANGED <<rf_s, rf_depth>>
  /\ UNCHANGED visitorVars

NextReflow == CallReflowLines \/ CallFormatLines

SpecReflow == InitReflow /\ [][NextReflow]_vars

(***************************************************************************)
(* The schema model (asdl.Module, Type, Sum, Constructor, Product, Field). *)
(* A composed name such as "%s_t" % name is the pair of its stem and its   *)
(* suffix.                                                                 *)
(***************************************************************************)
Nm(base, suffix) == [base |-> base, suffix |-> suffix]

NoName == Nm("", "")

\* _BUILTINS: schema type name -> C++ type
BUILTINS ==
  "string" :> "char*" @@ "int" :> "int" @@ "bool" :> "bool" @@ "id" :> "Id"

\* asdl.builtin_types, the types an attribute may have
asdl_builtin_types == {"string", "int", "bool", "id"}

\* enum_types as main() passes it to ClassDefVisitor
enum_types == {"Id"}

\* the names of the module's definitions, by position
DefNames == <<"a", "b", "c", "d">>

\* the names of the constructors of the definition at each position; a
\* constructor name is used once in a module
ConsNames ==
  << <<"aW", "aX", "aY", "aZ">>, <<"bW", "bX", "bY", "bZ">>,
     <<"cW", "cX", "cY", "cZ">>, <<"dW", "dX", "dY", "dZ">> >>

\* the type names a field may carry; one that the module does not define is
\* an unresolved reference
FieldTypes == <<"int", "string", "a", "id", "b", "bool">>

\* plain, repeated (*), optional (?)
FieldShapes == <<"one", "seq", "opt">>

NumKinds == Len(FieldTypes) * Len(FieldShapes)

\* the k-th field kind; the field's name stands for its kind
FieldKind(k) ==
  LET s == FieldShapes[((k - 1) % Len(FieldShapes)) + 1]
      t == FieldTypes[(((k - 1) \div Len(FieldShapes)) % Len(FieldTypes)) + 1]
  IN [name |-> k, type |-> t, seq |-> (s = "seq"), opt |-> (s = "opt")]

\* the field kind of a type and a shape
Fld(t, s) ==
  FieldKind(CHOOSE k \in 1 .. NumKinds :
              /\ FieldKind(k).type = t
              /\ FieldKind(k).seq = (s = "seq")
              /\ FieldKind(k).opt = (s = "opt"))

NoField == [name |-> 0, type |-> "", seq |-> FALSE, opt |-> FALSE]

\* n fields of consecutive kinds starting at kind k
Window(k, n) == [p \in 1 .. n |-> FieldKind(((k + p - 2) % NumKinds) + 1)]

FieldLists == {Window(k, n) : k \in 1 .. NumKinds, n \in 1 .. MaxFields}

\* the types an attribute may carry: a builtin scalar, and a type that is none
AttrTypes == {"int", "a"}

\* up to MaxAttrs attributes, named by position
AttrLists ==
  { [i \in 1 .. n |-> [name |-> 100 + i, type |-> ts[i], seq |-> FALSE,
                        opt |-> FALSE]] :
      <<n, ts>> \in {<<n, ts>> \in (0 .. MaxAttrs) \X [1 .. MaxAttrs -> AttrTypes] :
                      \A i \in 1 .. MaxAttrs : i > n => ts[i] = "int"} }

Sum(types, attributes) ==
  [kind |-> "Sum", types |-> types, fields |-> <<>>, attributes |-> attributes]

Product(fields, attributes) ==
  [kind |-> "Product", types |-> <<>>, fields |-> fields,
   attributes |-> attributes]

\* the n constructors of the definition at position pos; those of S carry the
\* fields fl, the others none
ConsList(pos, n, S, fl) ==
  [i \in 1 .. n |->
     [name |-> ConsNames[pos][i], fields |-> IF i \in S THEN fl ELSE <<>>]]

ConsLists(pos) ==
  {ConsList(pos, n, S, fl) : n \in 1 .. MaxCons, S \in SUBSET (1 .. MaxCons),
                             fl \in FieldLists}

\* asdl.is_simple: no constructor has fields
is_simple(sum) == \A i \in 1 .. Len(sum.types) : sum.types[i].fields = <<>>

PlainKinds == {"simple", "compound", "product"}

\* the plain definition of a kind, at position pos
Plain(pos, kind) ==
  CASE kind = "simple" -> Sum(ConsList(pos, 1, {}, <<>>), <<>>)
    [] kind = "compound" -> Sum(ConsList(pos, 1, {1}, <<Fld("a", "one")>>), <<>>)
    [] kind = "product" -> Product(<<Fld("int", "one")>>, <<>>)

\* the definitions that surround the one under scrutiny
PlainPool(pos) == {Plain(pos, kind) : kind \in PlainKinds}

\* the definition under scrutiny: any field layout without attributes, or a
\* plain definition with any attributes
FocusPool(pos) ==
  {Sum(cl, <<>>) : cl \in ConsLists(pos)}
    \cup {Product(fl, <<>>) : fl \in FieldLists \cup {<<>>}}
    \cup {[d EXCEPT !.attributes = al] : d \in PlainPool(pos), al \in AttrLists}

\* a module of n definitions named by position: the one at position p is d,
\* the others are the plain definitions of the kinds c
MakeModule(n, p, d, c) ==
  [i \in 1 .. n |->
     [name |-> DefNames[i], value |-> IF i = p THEN d ELSE Plain(i, c[i])]]

\* self.module.types[type_name]
HasType(type_name) == \E i \in 1 .. Len(module) : module[i].name = type_name

TypeOf(type_name) ==
  module[CHOOSE i \in 1 .. Len(module) : module[i].name = type_name].value

(***************************************************************************)
(* Written lines.  One record stands for the lines of one template         *)
(* instance: k names the template, the other fields the values put into    *)
(* it.  An accessor (its header, body and closing brace) is one record.    *)
(*   fwd          class <cls>;                                             *)
(*   enum_open    enum class <cls> : uint8_t {                             *)
(*   enum_vals    <name> = <value>, ...        (vals)                      *)
(*   enum_close   };                                                       *)
(*   class_open   class <cls> : public <base> {                            *)
(*   public        public:                                                 *)
(*   tag          the tag() accessor of a compound sum                     *)
(*   size         the <field>_size accessor of a repeated field            *)
(*   inline       an accessor whose body is written inside the class       *)
(*   proto        an accessor prototype; its body is queued                *)
(*   attr         <type> <name>;                                           *)
(*   class_close  };                                                       *)
(*   body         a deferred accessor body (of class <cls>)                *)
(*   blank, prologue, epilogue                                             *)
(* read names the primitive the body calls (Int, Enum, Str, Ref,           *)
(* Optional); stride is the factor of ARRAY_OFFSET, 0 in a singular        *)
(* accessor.                                                               *)
(***************************************************************************)
NoLine ==
  [k |-> "", depth |-> 0, cls |-> NoName, base |-> NoName, fld |-> NoField,
   offset |-> 0, read |-> "", ctype |-> NoName, stride |-> 0, vals |-> <<>>]

\* a visitor's progress: ok = FALSE once an exception has been raised
Emit(st, line) == [st EXCEPT !.out = Append(@, line)]

Raise(st) == [st EXCEPT !.ok = FALSE]

(***************************************************************************)
(* AsdlVisitor.GetCppType.  [ok, ctype]; ok = FALSE is the KeyError of     *)
(* self.module.types[type_name].                                           *)
(***************************************************************************)
GetCppType(field) ==
  IF field.type \in DOMAIN BUILTINS
  THEN [ok |-> TRUE, ctype |-> Nm(BUILTINS[field.type], "")]
  ELSE IF ~HasType(field.type)
  THEN [ok |-> FALSE, ctype |-> NoName]
  ELSE LET typ == TypeOf(field.type)
       IN IF typ.kind = "Sum" /\ is_simple(typ)
          THEN [ok |-> TRUE, ctype |-> Nm(field.type, "_e")]
          ELSE IF field.opt
          THEN [ok |-> TRUE, ctype |-> Nm(field.type, "_t*")]
          ELSE [ok |-> TRUE, ctype |-> Nm(field.type, "_t&")]

\* ctype in ('bool', 'int')
IsIntType(ctype) == ctype.suffix = "" /\ ctype.base \in {"bool", "int"}

\* ctype.endswith('_e'); no C++ name of BUILTINS ends so
EndsWith_e(ctype) == ctype.suffix = "_e"

\* ctype in self.enum_types
InEnumTypes(ctype) == ctype.suffix = "" /\ ctype.base \in enum_types

\* ctype == 'char*'
IsCharPtr(ctype) == ctype = Nm("char*", "")

(***************************************************************************)
(* ForwardDeclareVisitor.                                                  *)
(***************************************************************************)
Fwd_VisitCompoundSum(st, name, depth) ==
  Emit(st, [NoLine EXCEPT !.k = "fwd", !.depth = depth, !.cls = Nm(name, "_t")])

Fwd_VisitProduct(st, name, depth) ==
  Emit(st, [NoLine EXCEPT !.k = "fwd", !.depth = depth, !.cls = Nm(name, "_t")])

\* AsdlVisitor.VisitSimpleSum: pass
Fwd_VisitSimpleSum(st, name, depth) == st

\* AsdlVisitor.VisitType and VisitSum, as ForwardDeclareVisitor inherits them
Fwd_VisitType(st, typ, depth) ==
  IF typ.value.kind = "Sum"
  THEN IF is_simple(typ.value)
       THEN Fwd_VisitSimpleSum(st, typ.name, depth)
       ELSE Fwd_VisitCompoundSum(st, typ.name, depth)
  ELSE Fwd_VisitProduct(st, typ.name, depth)

Fwd_EmitFooter(st) == Emit(st, [NoLine EXCEPT !.k = "blank"])

RECURSIVE Fwd_VisitDfns(_, _)
Fwd_VisitDfns(st, dfns) ==
  IF dfns = <<>> THEN st
  ELSE Fwd_VisitDfns(Fwd_VisitType(st, Head(dfns), 0), Tail(dfns))

\* AsdlVisitor.VisitModule of the ForwardDeclareVisitor
Fwd_VisitModule(st, mod) == Fwd_EmitFooter(Fwd_VisitDfns(st, mod))

(***************************************************************************)
(* ClassDefVisitor.                                                        *)
(***************************************************************************)
\* the mutant of EnumValue: numbering from zero
EnumValue_Mut(i) == i

\* the value of the constructor at (0-based) index i: i + 1, zero is reserved
EnumValue(i) == i + 1

EmitEnum(st, sum, name, depth) ==
  LET enum == [i \in 1 .. Len(sum.types) |->
                 <<sum.types[i].name, EnumValue(i - 1)>>]
      s1 == Emit(st, [NoLine EXCEPT !.k = "enum_open", !.depth = depth,
                                    !.cls = Nm(name, "_e")])
      s2 == Emit(s1, [NoLine EXCEPT !.k = "enum_vals", !.depth = depth + 1,
                                    !.cls = Nm(name, "_e"), !.vals = enum])
      s3 == Emit(s2, [NoLine EXCEPT !.k = "enum_close", !.depth = depth])
  IN Emit(s3, [NoLine EXCEPT !.k = "blank", !.depth = depth])

\* ARRAY_OFFSET = 'int a = (index+1) * 3;'
ARRAY_OFFSET == 3

\* the accessors of a repeated field
VisitSeqField(st, field, ctype, type_name, offset, depth) ==
  LET acc == [NoLine EXCEPT !.cls = type_name, !.fld = field,
                            !.offset = offset, !.ctype = ctype]
      s1 == Emit(st, [acc EXCEPT !.k = "size", !.depth = depth,
                                 !.read = "Int", !.ctype = NoName])
      inl(read) == Emit(s1, [acc EXCEPT !.k = "inline", !.depth = depth,
                                        !.read = read,
                                        !.stride = ARRAY_OFFSET])
  IN IF IsIntType(ctype) THEN inl("Int")
     ELSE IF EndsWith_e(ctype) THEN inl("Enum")
     ELSE IF IsCharPtr(ctype) THEN inl("Str")
     ELSE LET s2 == [s1 EXCEPT !.footer =
                       Append(@, [acc EXCEPT !.k = "body", !.read = "Ref",
                                             !.stride = ARRAY_OFFSET])]
          IN Emit(s2, [acc EXCEPT !.k = "proto", !.depth = depth,
                                  !.stride = ARRAY_OFFSET])

\* the mutant of VisitOneField: the body of an object accessor is written
\* inside the class instead of being queued
VisitOneField_Mut(st, field, ctype, type_name, offset, depth) ==
  LET acc == [NoLine EXCEPT !.cls = type_name, !.fld = field,
                            !.offset = offset, !.ctype = ctype]
      inl(read) == Emit(st, [acc EXCEPT !.k = "inline", !.depth = depth,
                                        !.read = read])
  IN IF IsIntType(ctype) THEN inl("Int")
     ELSE IF EndsWith_e(ctype) \/ InEnumTypes(ctype) THEN inl("Enum")
     ELSE IF IsCharPtr(ctype) THEN inl("Str")
     ELSE Emit(Emit(st, [acc EXCEPT !.k = "proto", !.depth = depth]),
               [acc EXCEPT !.k = "body",
                           !.read = IF field.opt THEN "Optional" ELSE "Ref"])

\* the accessor of a field that is not repeated
VisitOneField(st, field, ctype, type_name, offset, depth) ==
  LET acc == [NoLine EXCEPT !.cls = type_name, !.fld = field,
                            !.offset = offset, !.ctype = ctype]
      inl(read) == Emit(st, [acc EXCEPT !.k = "inline", !.depth = depth,
                                        !.read = read])
  IN IF IsIntType(ctype) THEN inl("Int")
     ELSE IF EndsWith_e(ctype) \/ InEnumTypes(ctype) THEN inl("Enum")
     ELSE IF IsCharPtr(ctype) THEN inl("Str")
     ELSE LET read == IF field.opt THEN "Optional" ELSE "Ref"
              s2 == [st EXCEPT !.footer =
                       Append(@, [acc EXCEPT !.k = "body", !.read = read])]
          IN Emit(s2, [acc EXCEPT !.k = "proto", !.depth = depth])

VisitField(st, field, type_name, offset, depth) ==
  LET t == GetCppType(field)
  IN IF ~t.ok THEN Raise(st)
     ELSE IF field.seq
     THEN VisitSeqField(st, field, t.ctype, type_name, offset, depth)
     ELSE VisitOneField(st, field, t.ctype, type_name, offset, depth)

\* the mutant of NextOffset: the offset advances by one byte
NextOffset_Mut(offset) == offset + 1

\* offset += self.ref_width
NextOffset(offset) == offset + ref_width

\* offset = 1  #  for the ID
ConsFirstOffset == 1

\* offset = 0
ProductFirstOffset == 0

\* for f in fields: self.VisitField(f, type_name, offset, depth); offset += ...
RECURSIVE VisitFields(_, _, _, _, _)
VisitFields(st, fields, type_name, offset, depth) ==
  IF fields = <<>> \/ ~st.ok THEN st
  ELSE VisitFields(VisitField(st, Head(fields), type_name, offset, depth),
                   Tail(fields), type_name, NextOffset(offset), depth)

\* the mutant of HasFields: every constructor gets a class
HasFields_Mut(cons) == TRUE

\* if cons.fields:
HasFields(cons) == cons.fields # <<>>

VisitConstructor(st, cons, def_name, depth) ==
  IF HasFields(cons)
  THEN LET s1 == Emit(st, [NoLine EXCEPT !.k = "class_open", !.depth = depth,
                                         !.cls = Nm(cons.name, ""),
                                         !.base = def_name])
           s2 == Emit(s1, [NoLine EXCEPT !.k = "public", !.depth = depth])
           s3 == VisitFields(s2, cons.fields, Nm(cons.name, ""),
                             ConsFirstOffset, depth + 1)
       IN IF ~s3.ok THEN s3
          ELSE Emit(Emit(s3, [NoLine EXCEPT !.k = "class_close",
                                            !.depth = depth]),
                    [NoLine EXCEPT !.k = "blank", !.depth = depth])
  ELSE st

RECURSIVE VisitConstructors(_, _, _, _)
VisitConstructors(st, types, def_name, depth) ==
  IF types = <<>> \/ ~st.ok THEN st
  ELSE VisitConstructors(VisitConstructor(st, Head(types), def_name, depth),
                         Tail(types), def_name, depth)

\* rudimentary attribute handling: assert type in asdl.builtin_types; Emit
RECURSIVE VisitAttributes(_, _, _)
VisitAttributes(st, attributes, depth) ==
  IF attributes = <<>> \/ ~st.ok THEN st
  ELSE LET field == Head(attributes)
       IN IF field.type \notin asdl_builtin_types
          THEN Raise(st)
          ELSE VisitAttributes(
                 Emit(st, [NoLine EXCEPT !.k = "attr", !.depth = depth,
                                         !.fld = field,
                                         !.ctype = Nm(field.type, "")]),
                 Tail(attributes), depth)

ClassDef_VisitSimpleSum(st, sum, name, depth) == EmitEnum(st, sum, name, depth)

ClassDef_VisitCompoundSum(st, sum, name, depth) ==
  LET s1 == EmitEnum(st, sum, name, depth)
      s2 == Emit(s1, [NoLine EXCEPT !.k = "class_open", !.depth = depth,
                                    !.cls = Nm(name, "_t"),
                                    !.base = Nm("Obj", "")])
      s3 == Emit(s2, [NoLine EXCEPT !.k = "public", !.depth = depth])
      s4 == Emit(s3, [NoLine EXCEPT !.k = "tag", !.depth = depth + 1,
                                    !.cls = Nm(name, "_t"), !.read = "Enum",
                                    !.ctype = Nm(name, "_e")])
      s5 == Emit(s4, [NoLine EXCEPT !.k = "class_close", !.depth = depth])
      s6 == Emit(s5, [NoLine EXCEPT !.k = "blank", !.depth = depth])
      s7 == VisitConstructors(s6, sum.types, Nm(name, "_t"), depth)
  IN VisitAttributes(s7, sum.attributes, depth + 1)

ClassDef_VisitProduct(st, product, name, depth) ==
  LET s1 == Emit(st, [NoLine EXCEPT !.k = "class_open", !.depth = depth,
                                    !.cls = Nm(name, "_t"),
                                    !.base = Nm("Obj", "")])
      s2 == Emit(s1, [NoLine EXCEPT !.k = "public", !.depth = depth])
      s3 == VisitFields(s2, product.fields, Nm(name, "_t"),
                        ProductFirstOffset, depth + 1)
      s4 == VisitAttributes(s3, product.attributes, depth + 1)
  IN IF ~s4.ok THEN s4
     ELSE Emit(Emit(s4, [NoLine EXCEPT !.k = "class_close", !.depth = depth]),
               [NoLine EXCEPT !.k = "blank", !.depth = depth])

(***************************************************************************)
(* The run of main() for the action 'cpp'.                                 *)
(***************************************************************************)
RefWidths == 1 .. MaxRefWidth

IdleReflow ==
  /\ rf_s = <<>>
  /\ rf_depth = 0
  /\ rf_pc = "idle"
  /\ rf_res = NoResult

\* module = asdl.parse(schema_path); enc = encode.Params(alignment).  The
\* module has up to MaxDfns definitions, one drawn from FocusPool and the
\* others from PlainPool.
Init ==
  /\ IdleReflow
  /\ \E n \in 1 .. MaxDfns : \E p \in 1 .. n :
       \E d \in FocusPool(p) : \E c \in [1 .. n -> PlainKinds] :
         module = MakeModule(n, p, d, c)
  /\ ref_width \in RefWidths
  /\ pc = "start"
  /\ idx = 0
  /\ out = <<>>
  /\ footer = <<>>

Here == [ok |-> TRUE, out |-> out, footer |-> footer]

\* f.write of the Obj class declaration
MainPrologue ==
  /\ pc = "start"
  /\ out' = Append(out, [NoLine EXCEPT !.k = "prologue"])
  /\ pc' = "forward"
  /\ UNCHANGED <<module, ref_width, idx, footer>>
  /\ UNCHANGED reflowVars

\* ChainOfVisitors.VisitModule, first visitor
ForwardVisitModule ==
  /\ pc = "forward"
  /\ out' = Fwd_VisitModule(Here, module).out
  /\ pc' = "classdef"
  /\ UNCHANGED <<module, ref_width, idx, footer>>
  /\ UNCHANGED reflowVars

\* one turn of the loop of VisitModule in the ClassDefVisitor
Visit(st) ==
  /\ out' = st.out
  /\ footer' = st.footer
  /\ idx' = idx + 1
  /\ pc' = IF st.ok THEN "classdef" ELSE "aborted"
  /\ UNCHANGED <<module, ref_width>>
  /\ UNCHANGED reflowVars

ClassVisitSimpleSum ==
  /\ pc = "classdef"
  /\ idx < Len(module)
  /\ LET typ == module[idx + 1]
     IN /\ typ.value.kind = "Sum"
        /\ is_simple(typ.value)
        /\ Visit(ClassDef_VisitSimpleSum(Here, typ.value, typ.name, 0))

ClassVisitCompoundSum ==
  /\ pc = "classdef"
  /\ idx < Len(module)
  /\ LET typ == module[idx + 1]
     IN /\ typ.value.kind = "Sum"
        /\ ~is_simple(typ.value)
        /\ Visit(ClassDef_VisitCompoundSum(Here, typ.value, typ.name, 0))

ClassVisitProduct ==
  /\ pc = "classdef"
  /\ idx < Len(module)
  /\ LET typ == module[idx + 1]
     IN /\ typ.value.kind = "Product"
        /\ Visit(ClassDef_VisitProduct(Here, typ.value, typ.name, 0))

\* ClassDefVisitor.EmitFooter: for line in self.footer: self.f.write(line)
ClassEmitFooter ==
  /\ pc = "classdef"
  /\ idx = Len(module)
  /\ out' = out \o footer
  /\ pc' = "epilogue"
  /\ UNCHANGED <<module, ref_width, idx, footer>>
  /\ UNCHANGED reflowVars

\* f.write of the bodies of Obj's primitives
MainEpilogue ==
  /\ pc = "epilogue"
  /\ out' = Append(out, [NoLine EXCEPT !.k = "epilogue"])
  /\ pc' = "done"
  /\ UNCHANGED <<module, ref_width, idx, footer>>
  /\ UNCHANGED reflowVars

Next ==
  \/ MainPrologue
  \/ ForwardVisitModule
  \/ ClassVisitSimpleSum
  \/ ClassVisitCompoundSum
  \/ ClassVisitProduct
  \/ ClassEmitFooter
  \/ MainEpilogue

Spec == Init /\ [][Next]_vars

(***************************************************************************)
(* Reading the output.                                                     *)
(***************************************************************************)
Pos == 1 .. Len(out)

Accessors == {"inline", "proto"}

\* the class_open line that the line at p follows most closely (0: none)
OpenOf(p) ==
  LET qs == {q \in 1 .. (p - 1) : out[q].k = "class_open"}
  IN IF qs = {} THEN 0 ELSE CHOOSE q \in qs : \A r \in qs : r <= q

\* whether the class opened at q is still open at p
OpenAt(q, p) == q > 0 /\ \A r \in (q + 1) .. (p - 1) : out[r].k # "class_close"

\* the declared fields of the class whose opening line is o
FieldsOfClass(o) ==
  IF o.base = Nm("Obj", "")
  THEN TypeOf(o.cls.base).fields
  ELSE LET types == TypeOf(o.base.base).types
       IN types[CHOOSE i \in 1 .. Len(types) : types[i].name = o.cls.base].fields

\* the first offset the layout rule gives the class whose opening line is o
FirstOfClass(o) == IF o.base = Nm("Obj", "") THEN 0 ELSE 1

\* the rank of the field the line at p belongs to, among the fields of its class
RankOf(p) ==
  1 + Cardinality({r \in (OpenOf(p) + 1) .. (p - 1) : out[r].k \in Accessors})

\* C1: every accessor of a class is given the offset of the layout rule: its
\* field is the n-th declared field of the class and its offset is
\* first + (n - 1) * ref_width, first being 1 in a constructor class and 0 in a
\* product class; a deferred body carries the offset of its prototype.
C1_FieldOffsets ==
  /\ \A p \in Pos :
       out[p].k \in Accessors \cup {"size"} =>
         LET q == OpenOf(p)
             n == RankOf(p)
         IN /\ OpenAt(q, p)
            /\ n <= Len(FieldsOfClass(out[q]))
            /\ out[p].fld = FieldsOfClass(out[q])[n]
            /\ out[p].offset = FirstOfClass(out[q]) + (n - 1) * ref_width
  /\ \A b \in 1 .. Len(footer) :
       \E p \in Pos :
         /\ out[p].k = "proto"
         /\ out[p].cls = footer[b].cls
         /\ out[p].fld = footer[b].fld
         /\ out[p].offset = footer[b].offset

\* a run that wrote a constructor class with two fields, the second a repeated
\* or optional one, and a product class, under a ref_width above 1
C1_Witness ==
  /\ pc = "done"
  /\ ref_width = 3
  /\ \E p \in Pos :
       /\ out[p].k \in Accessors
       /\ out[OpenOf(p)].base # Nm("Obj", "")
       /\ out[p].offset = 1 + 3
       /\ out[p].fld.seq
  /\ \E p \in Pos :
       /\ out[p].k \in Accessors
       /\ out[OpenOf(p)].base = Nm("Obj", "")
       /\ out[p].offset = 0

Downcasts == {"Ref", "Optional"}

\* the lines of kind k, in the order written
LinesOf(k) == SelectSeq(out, LAMBDA l : l.k = k)

\* a line without its template kind and indentation
Key(l) == <<l.cls, l.fld, l.offset, l.stride>>

\* C2: a body that downcasts is written only in the footer: inside a class an
\* object accessor is a prototype, nothing but bodies and the epilogue follows
\* a body, no body is written before the traversal has ended, and once the
\* footer is written the bodies in the output are the queue, each once, in the
\* order queued, which is the order of their prototypes.
C2_DeferredBodies ==
  /\ \A p \in Pos :
       /\ out[p].read \in Downcasts => out[p].k = "body"
       /\ out[p].ctype.suffix \in {"_t&", "_t*"} => out[p].k \in {"proto", "body"}
       /\ out[p].k = "body" =>
            \A q \in (p + 1) .. Len(out) : out[q].k \in {"body", "epilogue"}
  /\ pc \in {"start", "forward", "classdef", "aborted"} => LinesOf("body") = <<>>
  /\ pc \in {"epilogue", "done"} =>
       /\ LinesOf("body") = footer
       /\ Len(LinesOf("proto")) = Len(footer)
       /\ \A b \in 1 .. Len(footer) : Key(LinesOf("proto")[b]) = Key(footer[b])
  /\ \A b \in 1 .. Len(footer) : footer[b].k = "body"

\* a finished run whose footer holds the bodies of a singular, an optional and
\* a repeated object accessor, from two classes
C2_Witness ==
  /\ pc = "done"
  /\ Len(footer) >= 3
  /\ \E b \in 1 .. Len(footer) : footer[b].read = "Ref" /\ footer[b].stride = 0
  /\ \E b \in 1 .. Len(footer) : footer[b].read = "Optional"
  /\ \E b \in 1 .. Len(footer) : footer[b].stride # 0
  /\ \E b, c \in 1 .. Len(footer) : footer[b].cls # footer[c].cls

\* the definitions the ClassDefVisitor has visited to the end
Visited == {i \in 1 .. Len(module) : i <= idx /\ ~(pc = "aborted" /\ i = idx)}

\* C3: for every Sum the ClassDefVisitor has reached there is exactly one
\* enumeration; it lists the constructors in declaration order and gives the
\* i-th (from 1) the value i; no enumeration gives a constructor the value 0.
C3_EnumNumbering ==
  /\ \A i \in 1 .. Len(module) :
       module[i].value.kind = "Sum" =>
         LET types == module[i].value.types
             es == {p \in Pos : out[p].k = "enum_vals"
                                  /\ out[p].cls = Nm(module[i].name, "_e")}
         IN /\ Cardinality(es) = IF i <= idx THEN 1 ELSE 0
            /\ \A p \in es :
                 /\ out[p].vals = [j \in 1 .. Len(types) |-> <<types[j].name, j>>]
                 /\ out[p - 1].k = "enum_open"
                 /\ out[p + 1].k = "enum_close"
  /\ \A p \in Pos : \A j \in 1 .. Len(out[p].vals) : out[p].vals[j][2] # 0
  /\ Cardinality({p \in Pos : out[p].k = "enum_vals"}) =
       Cardinality({i \in 1 .. Len(module) :
                      i <= idx /\ module[i].value.kind = "Sum"})

\* a finished run over a simple Sum of two constructors and a compound Sum
C3_Witness ==
  /\ pc = "done"
  /\ \E i, j \in 1 .. Len(module) :
       /\ module[i].value.kind = "Sum" /\ is_simple(module[i].value)
       /\ Len(module[i].value.types) = 2
       /\ module[j].value.kind = "Sum" /\ ~is_simple(module[j].value)

\* the number of lines of kind k that satisfy T
Count(k, T(_)) == Cardinality({p \in Pos : out[p].k = k /\ T(out[p])})

\* C4: for a Sum visited to the end, the derived classes are as many as the
\* constructors with fields, one per such constructor; a simple Sum has no
\* tagged base class and no forward declaration, a compound Sum one of each.
C4_ClassCount ==
  \A i \in Visited :
    module[i].value.kind = "Sum" =>
      LET sum == module[i].value
          t == Nm(module[i].name, "_t")
          n == IF is_simple(sum) THEN 0 ELSE 1
      IN /\ Count("class_open", LAMBDA l : l.base = t) =
              Cardinality({c \in 1 .. Len(sum.types) : sum.types[c].fields # <<>>})
         /\ \A c \in 1 .. Len(sum.types) :
              Count("class_open",
                    LAMBDA l : l.base = t /\ l.cls = Nm(sum.types[c].name, "")) =
                IF sum.types[c].fields # <<>> THEN 1 ELSE 0
         /\ Count("class_open", LAMBDA l : l.cls = t) = n
         /\ Count("tag", LAMBDA l : l.cls = t) = n
         /\ Count("fwd", LAMBDA l : l.cls = t) = n

\* a finished run over a compound Sum with a field-less and a fielded
\* constructor, and over a simple Sum
C4_Witness ==
  /\ pc = "done"
  /\ \E i, j \in 1 .. Len(module) :
       /\ module[i].value.kind = "Sum"
       /\ \E c, d \in 1 .. Len(module[i].value.types) :
            /\ module[i].value.types[c].fields = <<>>
            /\ module[i].value.types[d].fields # <<>>
       /\ module[j].value.kind = "Sum" /\ is_simple(module[j].value)

\* a field whose type is an enumeration: the builtin 'id' or a simple Sum
IsEnumField(field) ==
  \/ field.type = "id"
  \/ /\ field.type \notin DOMAIN BUILTINS
     /\ HasType(field.type)
     /\ TypeOf(field.type).kind = "Sum"
     /\ is_simple(TypeOf(field.type))

\* C5: the accessor of a field of enumeration type, singular or repeated, is
\* an inline integer read cast to the enum type; no prototype is written and
\* no deferred body is queued for it.
C5_EnumFieldsInline ==
  /\ \A p \in Pos :
       (out[p].k \in Accessors \cup {"body"} /\ IsEnumField(out[p].fld)) =>
         (out[p].k = "inline" /\ out[p].read = "Enum")
  /\ \A b \in 1 .. Len(footer) : ~IsEnumField(footer[b].fld)

\* C6: the indexed accessor of a repeated field steps by one multiple of
\* ref_width, the same for every element kind, and the size accessor reads
\* the count of the array the field's offset leads to.
C6_StrideMultipleOfRefWidth ==
  /\ \A p \in Pos :
       (out[p].k \in Accessors /\ out[p].fld.seq) =>
         /\ out[p].stride > 0
         /\ out[p].stride % ref_width = 0
         /\ out[p - 1].k = "size"
         /\ out[p - 1].offset = out[p].offset
  /\ \A p, q \in Pos :
       (out[p].k \in Accessors /\ out[q].k \in Accessors
          /\ out[p].fld.seq /\ out[q].fld.seq) => out[p].stride = out[q].stride

\* whether a definition declares an attribute that is no builtin scalar
BadAttribute(value) ==
  \E a \in 1 .. Len(value.attributes) :
    value.attributes[a].type \notin asdl_builtin_types

\* C7: a module with a definition that declares an attribute of a type that
\* is no builtin scalar never gets its footer or its epilogue written and
\* never ends successfully.
C7_BadAttributeAborts ==
  (\E i \in 1 .. Len(module) : BadAttribute(module[i].value)) =>
    /\ pc \notin {"epilogue", "done"}
    /\ \A p \in Pos : out[p].k \notin {"body", "epilogue"}

\* C10: every attribute declaration lies inside a class body: the class
\* opened last before it is not closed before it.
C10_AttrsInsideClass ==
  \A p \in Pos : out[p].k = "attr" => OpenAt(OpenOf(p), p)

(***************************************************************************)
(* The formatter's claims, under SpecReflow.                               *)
(***************************************************************************)
WithinBudget(lines, depth) ==
  \A k \in 1 .. Len(lines) : Len(lines[k]) <= Budget(depth)

\* C8: whenever ReflowLines returns, every returned line is at most
\* MAX_COL - depth * TABSIZE long, so no line FormatLines writes extends beyond
\* MAX_COL columns, and an input shorter than the budget comes back unchanged.
C8_ReflowWithinBudget ==
  /\ rf_pc = "reflowed" =>
       /\ WithinBudget(rf_res.lines, rf_depth)
       /\ Len(rf_s) < Budget(rf_depth) => rf_res.lines = <<rf_s>>
  /\ rf_pc = "formatted" =>
       \A k \in 1 .. Len(rf_res.lines) : Len(rf_res.lines[k]) <= MAX_COL + 1

\* C9: when ReflowLines returned lines that are all within the budget,
\* ReflowLines at the same depth returns each of them as it is, alone.
C9_ReflowIdempotent ==
  (rf_pc = "reflowed" /\ WithinBudget(rf_res.lines, rf_depth)) =>
    \A k \in 1 .. Len(rf_res.lines) :
      ReflowLines(rf_res.lines[k], rf_depth) =
        [ok |-> TRUE, lines |-> <<rf_res.lines[k]>>]

\* a line was split, all within the budget, and the continuation line starts
\* with alignment padding and is exactly as long as the budget
C9_Witness ==
  /\ rf_pc = "reflowed"
  /\ Len(rf_res.lines) = 2
  /\ WithinBudget(rf_res.lines, rf_depth)
  /\ Head(rf_res.lines[1]) = "("
  /\ Head(rf_res.lines[2]) = " "
  /\ Len(rf_res.lines[2]) = Budget(rf_depth)

====
